---- MODULE Spec2Model ----
(***************************************************************************)
(* A model of ae_measure2.py: the clipped-signal detector and filter, the  *)
(* channel selectors, the one-sided spectrum and the spectrum vectorizer.  *)
(*                                                                         *)
(* Every function of the file is pure, so each one is exercised by a small *)
(* harness: Init draws the arguments, one action per function performs the *)
(* call and stores what the call returned (or the exception it raised).    *)
(*                                                                         *)
(* Numbers.  Voltages are integers counting thousandths of a volt, so that *)
(* np.round(x, 2) is rounding to a multiple of 10.  Frequencies and        *)
(* spectrum values are exact rationals <<num, den>> with den > 0 in lowest *)
(* terms; <<0, 0>> stands for the float nan that 0.0/0.0 produces.         *)
(***************************************************************************)
EXTENDS Integers, Sequences, FiniteSets, TLC

VARIABLES
    pc,         \* position of the harness: "start", then one label per call made
    sig,        \* is_clipped: the signal passed in
    clipped,    \* is_clipped: the value returned
    v1, v2,     \* remove_clipped: channel 1 and channel 2 signals, one per event
    ev,         \* remove_clipped: event numbers
    time,       \* remove_clipped: timestamps, <<>> when the argument is omitted
    res1,       \* remove_clipped: outcome of the call on the inputs
    res2,       \* remove_clipped: outcome of the call on res1's sequences
    signal1,    \* max_sig / min_sig: first argument
    signal2,    \* max_sig / min_sig: second argument
    maxRes,     \* max_sig: what was returned
    minRes,     \* min_sig: what was returned
    wave,       \* fft / wave2vec: the waveform, as [n, fs, mag]
    band,       \* fft: [low_pass, high_pass]; wave2vec: its other arguments
    ret         \* fft / wave2vec: outcome of the call

vars == <<pc, sig, clipped, v1, v2, ev, time, res1, res2,
          signal1, signal2, maxRes, minRes, wave, band, ret>>

\* ------------------------------------------------------------------ bounds

\* Longest signal handed to is_clipped, max_sig and min_sig.
MaxLen == 3
\* Largest number of events handed to remove_clipped.
MaxEvents == 2

\* Sample values, in thousandths of a volt.
Samples == {-10, 0, 10, 14}

\* Signals of the events handed to remove_clipped.
EventSignals == {<<10, -10>>, <<0, 10>>, <<10, 14>>, <<0, 0>>}

None == "None"
NoResult == [status |-> "none"]

\* ----------------------------------------------------------- sequence helpers

RECURSIVE SeqMax(_)
\* max(s) of a non-empty sequence of integers.
SeqMax(s) ==
    IF Len(s) = 1 THEN s[1]
    ELSE LET m == SeqMax(Tail(s)) IN IF s[1] > m THEN s[1] ELSE m

RECURSIVE WhereFrom(_, _)
\* The positions i >= from at which the boolean array mask is true, ascending.
WhereFrom(mask, from) ==
    IF from > Len(mask) THEN <<>>
    ELSE IF mask[from] THEN <<from>> \o WhereFrom(mask, from + 1)
    ELSE WhereFrom(mask, from + 1)

\* np.where(mask)[0].
Where(mask) == WhereFrom(mask, 1)

\* a[idx]: fancy indexing of an array by an array of positions.
Take(a, idx) == [k \in 1..Len(idx) |-> a[idx[k]]]

\* ------------------------------------------------------------------ is_clipped

Abs(x) == IF x < 0 THEN -x ELSE x

\* np.round(x, decimals=2) of a non-negative x: rint(x*100)/100, where rint
\* rounds halves to the even neighbour.
Round2(x) ==
    LET q == x \div 10
        r == x % 10
    IN  IF r < 5 THEN 10 * q
        ELSE IF r > 5 THEN 10 * (q + 1)
        ELSE IF q % 2 = 0 THEN 10 * q ELSE 10 * (q + 1)

\* The samples is_clipped counts: the absolute values that equal the maximum
\* of the rounded absolute values.
PeakSamples(s) ==
    LET a   == [i \in 1..Len(s) |-> Abs(s[i])]
        max == SeqMax([i \in 1..Len(a) |-> Round2(a[i])])
    IN  Take(a, Where([i \in 1..Len(a) |-> a[i] = max]))

is_clipped(s) == Len(PeakSamples(s)) > 1

\* ---------------------------------------------------------------- remove_clipped

\* DropPair with "or" in place of "and".
DropPairEither(s1, s2) == is_clipped(s1) \/ is_clipped(s2)

\* The test of the loop body: the pair is passed over.
DropPair(s1, s2) == is_clipped(s1) /\ is_clipped(s2)

RECURSIVE LoopWithTime(_, _, _, _, _, _)
\* The loop of the branch taken when timestamps are given; h holds the four
\* accumulators.
LoopWithTime(a, b, e, t, i, h) ==
    IF i > Len(a) THEN h
    ELSE IF DropPair(a[i], b[i]) THEN LoopWithTime(a, b, e, t, i + 1, h)
    ELSE LoopWithTime(a, b, e, t, i + 1,
            <<Append(h[1], a[i]), Append(h[2], b[i]),
              Append(h[3], e[i]), Append(h[4], t[i])>>)

RECURSIVE LoopNoTime(_, _, _, _, _)
\* The loop of the other branch: only three accumulators are bound there, and
\* the body still appends to the fourth, which raises UnboundLocalError at the
\* first pair that is kept.
LoopNoTime(a, b, e, i, h) ==
    IF i > Len(a) THEN [status |-> "ok", out |-> h]
    ELSE IF DropPair(a[i], b[i]) THEN LoopNoTime(a, b, e, i + 1, h)
    ELSE [status |-> "UnboundLocalError"]

remove_clipped(a, b, e, t) ==
    IF Len(t) # 0
    THEN [status |-> "ok",
          out |-> LoopWithTime(a, b, e, t, 1, <<<<>>, <<>>, <<>>, <<>>>>)]
    ELSE LoopNoTime(a, b, e, 1, <<<<>>, <<>>, <<>>>>)

\* remove_clipped(*r): the call on the sequences an earlier call returned.
remove_clipped_again(r) ==
    IF Len(r.out) = 4
    THEN remove_clipped(r.out[1], r.out[2], r.out[3], r.out[4])
    ELSE remove_clipped(r.out[1], r.out[2], r.out[3], <<>>)

\* ------------------------------------------------------------ harness: defaults

IdleClipped == sig = <<>> /\ clipped = None
IdleRemove  == /\ v1 = <<>> /\ v2 = <<>> /\ ev = <<>> /\ time = <<>>
               /\ res1 = NoResult /\ res2 = NoResult
IdleSelect  == /\ signal1 = <<>> /\ signal2 = <<>>
               /\ maxRes = NoResult /\ minRes = NoResult
IdleSpectrum == wave = None /\ band = None /\ ret = NoResult

\* Signals of 1..MaxLen samples.
Signals == UNION {[1..n -> Samples] : n \in 1..MaxLen}

\* ------------------------------------------------------ harness: is_clipped

InitClipped ==
    /\ pc = "start"
    /\ sig \in Signals
    /\ clipped = None
    /\ IdleRemove /\ IdleSelect /\ IdleSpectrum

CallIsClipped ==
    /\ pc = "start"
    /\ clipped' = is_clipped(sig)
    /\ pc' = "is_clipped"
    /\ UNCHANGED <<sig, v1, v2, ev, time, res1, res2,
                   signal1, signal2, maxRes, minRes, wave, band, ret>>

SpecClipped == InitClipped /\ [][CallIsClipped]_vars

\* -------------------------------------------------- harness: remove_clipped

\* Timestamp of event i.
Stamp(i) == 100 + i

InitRemove ==
    /\ pc = "start"
    /\ \E n \in 0..MaxEvents :
          /\ v1 \in [1..n -> EventSignals]
          /\ v2 \in [1..n -> EventSignals]
          /\ ev = [i \in 1..n |-> i]
          /\ time \in {<<>>, [i \in 1..n |-> Stamp(i)]}
    /\ res1 = NoResult /\ res2 = NoResult
    /\ IdleClipped /\ IdleSelect /\ IdleSpectrum

CallRemove ==
    /\ pc = "start"
    /\ res1' = remove_clipped(v1, v2, ev, time)
    /\ pc' = "once"
    /\ UNCHANGED <<sig, clipped, v1, v2, ev, time, res2,
                   signal1, signal2, maxRes, minRes, wave, band, ret>>

CallRemoveAgain ==
    /\ pc = "once"
    /\ res1.status = "ok"
    /\ res2' = remove_clipped_again(res1)
    /\ pc' = "twice"
    /\ UNCHANGED <<sig, clipped, v1, v2, ev, time, res1,
                   signal1, signal2, maxRes, minRes, wave, band, ret>>

SpecRemove == InitRemove /\ [][CallRemove \/ CallRemoveAgain]_vars

\* ---------------------------------------------------------- max_sig, min_sig

\* max(abs(signal)) of a non-empty signal.
Peak(s) == SeqMax([i \in 1..Len(s) |-> Abs(s[i])])

\* max_sig with ">=" in place of ">".
max_sig_ge(s1, s2) ==
    IF Peak(s1) >= Peak(s2) THEN [status |-> "ok", chan |-> 1, sig |-> s1]
    ELSE [status |-> "ok", chan |-> 2, sig |-> s2]

\* The array returned, with the argument it is (chan).
max_sig(s1, s2) ==
    IF Peak(s1) > Peak(s2) THEN [status |-> "ok", chan |-> 1, sig |-> s1]
    ELSE [status |-> "ok", chan |-> 2, sig |-> s2]

min_sig(s1, s2) ==
    IF Peak(s1) > Peak(s2) THEN [status |-> "ok", chan |-> 2, sig |-> s2]
    ELSE [status |-> "ok", chan |-> 1, sig |-> s1]

\* ------------------------------------------------ harness: max_sig, min_sig

InitSelect ==
    /\ pc = "start"
    /\ \E n \in 1..MaxLen :
          /\ signal1 \in [1..n -> Samples]
          /\ signal2 \in [1..n -> Samples]
    /\ maxRes = NoResult /\ minRes = NoResult
    /\ IdleClipped /\ IdleRemove /\ IdleSpectrum

CallMaxSig ==
    /\ maxRes = NoResult
    /\ maxRes' = max_sig(signal1, signal2)
    /\ pc' = IF minRes = NoResult THEN "one" ELSE "both"
    /\ UNCHANGED <<sig, clipped, v1, v2, ev, time, res1, res2,
                   signal1, signal2, minRes, wave, band, ret>>

CallMinSig ==
    /\ minRes = NoResult
    /\ minRes' = min_sig(signal1, signal2)
    /\ pc' = IF maxRes = NoResult THEN "one" ELSE "both"
    /\ UNCHANGED <<sig, clipped, v1, v2, ev, time, res1, res2,
                   signal1, signal2, maxRes, wave, band, ret>>

SpecSelect == InitSelect /\ [][CallMaxSig \/ CallMinSig]_vars

\* ------------------------------------------------------------- exact rationals

RECURSIVE GCD(_, _)
GCD(a, b) == IF b = 0 THEN a ELSE GCD(b, a % b)

Sign(x) == IF x < 0 THEN -1 ELSE IF x > 0 THEN 1 ELSE 0

\* The number n/d in lowest terms; x/0 is what float division gives for it
\* (nan for 0/0, written <<0, 0>>; an infinity otherwise).
R(n, d) ==
    IF d = 0 THEN <<Sign(n), 0>>
    ELSE LET g == GCD(Abs(n), Abs(d))
         IN  <<Sign(d) * (n \div g), Abs(d) \div g>>

IsNaN(a) == a = <<0, 0>>

RMul(a, b) ==
    IF a[2] = 0 \/ b[2] = 0 THEN <<Sign(a[1]) * Sign(b[1]), 0>>
    ELSE LET g1 == GCD(Abs(a[1]), b[2])
             g2 == GCD(Abs(b[1]), a[2])
         IN  R((a[1] \div g1) * (b[1] \div g2), (a[2] \div g2) * (b[2] \div g1))

RDiv(a, b) ==
    IF b[1] = 0 THEN <<Sign(a[1]), 0>>
    ELSE RMul(a, <<Sign(b[1]) * b[2], Abs(b[1])>>)

RAdd(a, b) ==
    IF a[2] = 0 \/ b[2] = 0 THEN <<0, 0>>
    ELSE LET g == GCD(a[2], b[2])
         IN  R(a[1] * (b[2] \div g) + b[1] * (a[2] \div g), (a[2] \div g) * b[2])

RSub(a, b) == RAdd(a, <<-b[1], b[2]>>)

\* a < b; false when either is nan, as every float comparison with nan is.
RLt(a, b) ==
    /\ a[2] # 0 /\ b[2] # 0
    /\ LET g == GCD(a[2], b[2])
       IN  a[1] * (b[2] \div g) < b[1] * (a[2] \div g)

RLe(a, b) == a[2] # 0 /\ b[2] # 0 /\ ~RLt(b, a)

RECURSIVE RSum(_, _, _)
\* np.sum of entries lo..hi of a sequence of rationals (0.0 when there is none).
RSum(a, lo, hi) ==
    IF lo > hi THEN <<0, 1>>
    ELSE IF lo = hi THEN a[lo]
    ELSE LET mid == (lo + hi) \div 2
         IN  RAdd(RSum(a, lo, mid), RSum(a, mid + 1, hi))

\* --------------------------------------------------------------------- fft

\* np.abs(np.fft.fft(y)): the magnitude of each of the n bins.  The transform
\* is numpy's; the waveform is given by the magnitudes of its bins, wv.mag,
\* bin b at position b+1.
Magnitudes(wv) == [i \in 1..wv.n |-> R(wv.mag[i], 1)]

\* np.fft.fftfreq(n, dt) with dt = 1/fs: bins 0..(n-1)//2 first, then the
\* negative frequencies -(n//2)..-1, each divided by n*dt.
fftfreq(n, fs) ==
    [i \in 1..n |->
        IF i - 1 <= (n - 1) \div 2 THEN R((i - 1) * fs, n)
        ELSE R((i - 1 - n) * fs, n)]

\* Lines 198-199: w is masked first, and z is then indexed by the positions at
\* which the already masked w is non-negative.
PositiveHalf(s) ==
    LET NonNeg(a) == [k \in 1..Len(a) |-> RLe(<<0, 1>>, a[k])]
        w == Take(s.w, Where(NonNeg(s.w)))
    IN  [w |-> w, z |-> Take(s.z, Where(NonNeg(w)))]

\* LowPass with the two statements in the order of lines 198-199: w masked
\* first, z indexed by the mask of the masked w.
LowPassWFirst(s, low_pass) ==
    LET Above(a) == [k \in 1..Len(a) |-> RLt(R(low_pass, 1), a[k])]
        w == Take(s.w, Where(Above(s.w)))
    IN  [w |-> w, z |-> Take(s.z, Where(Above(w)))]

\* Lines 202-203: z, then w, both by the mask w > low_pass.
LowPass(s, low_pass) ==
    LET Above(a) == [k \in 1..Len(a) |-> RLt(R(low_pass, 1), a[k])]
    IN  [z |-> Take(s.z, Where(Above(s.w))),
         w |-> Take(s.w, Where(Above(s.w)))]

\* Lines 205-206: z, then w, both by the mask w < high_pass.
HighPass(s, high_pass) ==
    LET Below(a) == [k \in 1..Len(a) |-> RLt(a[k], R(high_pass, 1))]
    IN  [z |-> Take(s.z, Where(Below(s.w))),
         w |-> Take(s.w, Where(Below(s.w)))]

\* An optional argument is <<x>> when given and Omitted when left at None.
Omitted == <<>>

fft(wv, low_pass, high_pass) ==
    LET s0 == PositiveHalf([w |-> fftfreq(wv.n, wv.fs), z |-> Magnitudes(wv)])
        s1 == IF low_pass # Omitted THEN LowPass(s0, low_pass[1]) ELSE s0
        s2 == IF high_pass # Omitted THEN HighPass(s1, high_pass[1]) ELSE s1
    IN  [status |-> "ok", w |-> s2.w, z |-> s2.z]

\* ---------------------------------------------------------- harness: fft

\* Largest waveform length.
MaxN == 5
\* Largest magnitude of a bin.
MaxMag == 1

\* The magnitude spectra of real waveforms of n samples: |Z[b]| = |Z[n-b]|.
Spectra(n) ==
    {m \in [1..n -> 0..MaxMag] : \A b \in 1..(n - 1) : m[b + 1] = m[n - b + 1]}

\* Waveforms of 1..MaxN samples taken at fs samples per second.
Waves(fs) ==
    UNION {{[n |-> n, fs |-> fs, mag |-> m] : m \in Spectra(n)} : n \in 1..MaxN}

\* Values of low_pass and high_pass, in Hz.
Cuts == {Omitted, <<0>>, <<2>>, <<4>>}

InitFft ==
    /\ pc = "start"
    /\ wave \in Waves(10)
    /\ band \in [low_pass : Cuts, high_pass : Cuts]
    /\ ret = NoResult
    /\ IdleClipped /\ IdleRemove /\ IdleSelect

CallFft ==
    /\ pc = "start"
    /\ ret' = fft(wave, band.low_pass, band.high_pass)
    /\ pc' = "fft"
    /\ UNCHANGED <<sig, clipped, v1, v2, ev, time, res1, res2,
                   signal1, signal2, maxRes, minRes, wave, band>>

SpecFft == InitFft /\ [][CallFft]_vars

\* ----------------------------------------------------------------- wave2vec

\* np.linspace(start, stop, num): entry i (from 0) is start + i*step, with
\* step = (stop - start)/(num - 1).  Held at positions 1..num.
linspace(start, stop, num) ==
    [i \in 1..num |->
        RAdd(R(start, 1), RMul(R(i - 1, 1), R(stop - start, num - 1)))]

\* np.interp(x, xp, fp) for one x and a non-empty increasing xp: the edge value
\* outside [xp[0], xp[-1]], the line through the two neighbours inside.
interp(x, xp, fp) ==
    IF RLe(x, xp[1]) THEN fp[1]
    ELSE IF RLe(xp[Len(xp)], x) THEN fp[Len(xp)]
    ELSE LET j == CHOOSE k \in 1..(Len(xp) - 1) : RLe(xp[k], x) /\ RLt(x, xp[k + 1])
             slope == RDiv(RSub(fp[j + 1], fp[j]), RSub(xp[j + 1], xp[j]))
         IN  RAdd(RMul(slope, RSub(x, xp[j])), fp[j])

\* a[lo:hi] of a Python sequence held at positions 1..Len(a), 0 <= lo <= hi:
\* both ends are cut to the length.
SliceBounds(lo, hi, len) ==
    <<IF lo < len THEN lo ELSE len, IF hi < len THEN hi ELSE len>>

Slice(a, lo, hi) ==
    LET b == SliceBounds(lo, hi, Len(a))
    IN  [k \in 1..(b[2] - b[1]) |-> a[b[1] + k]]

\* scipy's _basic_simps(y, start, stop, x=None, dx=1): the sum over
\* i = start, start+2, ... below stop of (y[i] + 4*y[i+1] + y[i+2])/3; the
\* slices are empty, and the sum 0.0, when stop <= start.
basic_simps(y, start, stop) ==
    LET cnt == IF stop <= start THEN 0 ELSE (stop - start + 1) \div 2
        term == [t \in 1..cnt |->
                    LET i == start + 2 * (t - 1) + 1
                    IN  RAdd(RAdd(y[i], RMul(<<4, 1>>, y[i + 1])), y[i + 2])]
    IN  RMul(<<1, 3>>, RSum(term, 1, cnt))

\* scipy.integrate.simps(y) with dx=1, even='avg', of a non-empty y: Simpson's
\* rule for an odd number of samples; for an even number the mean of the rule
\* on the first N-1 samples plus a trapezoid on the last interval and of a
\* trapezoid on the first interval plus the rule on the last N-1 samples.
simps(y) ==
    LET N == Len(y)
    IN  IF N % 2 = 1 THEN basic_simps(y, 0, N - 2)
        ELSE LET val == RAdd(RMul(<<1, 2>>, RAdd(y[N], y[N - 1])),
                             RMul(<<1, 2>>, RAdd(y[2], y[1])))
                 result == RAdd(basic_simps(y, 0, N - 3), basic_simps(y, 1, N - 2))
             IN  RAdd(RMul(<<1, 2>>, result), RMul(<<1, 2>>, val))

\* interval_width with the quotient rounded up.
interval_width_ceil(len, dims) == (len + dims - 1) \div dims

\* Line 295: int(len(upsampled_z)/dims).
interval_width(len, dims) == len \div dims

\* true_upper_bound with j where line 306 has j+1.
true_upper_bound_j(lowerF, dims, width, dw) ==
    RAdd(RMul(R((dims - 1) * width, 1), dw), lowerF)

\* Line 306, with j = dims-1 as the loop leaves it; lowerF is lower/FFT_units.
true_upper_bound(lowerF, dims, width, dw) ==
    RAdd(RMul(R(dims * width, 1), dw), lowerF)

ConfigError == "ValueError: Increase upsampling number"
InterpError == "ValueError: array of sample points is empty"

\* Lines 298-303: the loop over the dims windows of interval_width samples.
\* windows lists the index ranges line 299 slices, which wave2vec does not
\* return.
SubBands(upsampled_z, dims, width, lowerF, dw) ==
    [feature_vector |->
        [j \in 1..dims |-> simps(Slice(upsampled_z, (j - 1) * width, j * width))],
     true_bounds |->
        [j \in 1..dims |-> RAdd(lowerF, RMul(R((j - 1) * width, 1), dw))],
     windows |->
        [j \in 1..dims |->
            SliceBounds((j - 1) * width, j * width, Len(upsampled_z))]]

\* Line 309: the part of the requested band beyond true_upper_bound, as a
\* fraction of the band, is more than .01.
TooCoarse(lowerF, upperF, upper_bound) ==
    RLt(<<1, 100>>, RDiv(RSub(upperF, upper_bound), RSub(upperF, lowerF)))

\* Lines 305-312: the bounds, the check and the normalised return value.
Finish(b, dims, width, lowerF, upperF, dw, total) ==
    IF TooCoarse(lowerF, upperF, true_upper_bound(lowerF, dims, width, dw))
    THEN [status |-> ConfigError, windows |-> b.windows]
    ELSE [status |-> "ok",
          feature_vector |-> [j \in 1..dims |-> RDiv(b.feature_vector[j], total)],
          true_bounds |-> b.true_bounds,
          spacing |-> RMul(R(width, 1), dw),
          windows |-> b.windows]

\* Lines 292-312, from the interpolation on: xs is upsampled_w, w and z the
\* rescaled spectrum; np.interp raises on an empty spectrum.
Integrate(xs, w, z, dims, lowerF, upperF) ==
    IF Len(w) = 0 THEN [status |-> InterpError]
    ELSE LET upsampled_z == [i \in 1..Len(xs) |-> interp(xs[i], w, z)]
             dw == RSub(xs[2], xs[1])
             width == interval_width(Len(xs), dims)
             b == SubBands(upsampled_z, dims, width, lowerF, dw)
         IN  Finish(b, dims, width, lowerF, upperF, dw,
                    RSum(b.feature_vector, 1, dims))

\* Over(a, units): the array a divided by the scalar units.
Over(a, units) == [k \in 1..Len(a) |-> RDiv(a[k], R(units, 1))]

\* wave2vec(dt, waveform, lower, upper, dims, FFT_units, upsample) for
\* lower < upper and 1 <= dims <= upsample >= 2.
wave2vec(wv, lower, upper, dims, FFT_units, upsample) ==
    LET s == fft(wv, <<lower>>, <<upper>>)
    IN  Integrate(Over(linspace(lower, upper, upsample), FFT_units),
                  Over(s.w, FFT_units), s.z, dims,
                  R(lower, FFT_units), R(upper, FFT_units))

\* ------------------------------------------------------ harness: wave2vec

\* Largest dims and upsample of the small calls.
MaxDims == 4
MaxUpsample == 8

\* The default of upsample.
DefaultUpsample == 10001

\* <<lower, upper>> of the small calls, in Hz, for waveforms sampled at 10 Hz.
Bands == {<<0, 5>>, <<2, 4>>}

SmallCalls ==
    {[lower |-> b[1], upper |-> b[2], dims |-> d, FFT_units |-> 2, upsample |-> u] :
        b \in Bands, d \in 1..MaxDims, u \in 2..MaxUpsample}

\* The call of the spec's scenario: 0..500 kHz in kHz, 10 dimensions, with
\* upsample 10 and with the default.
ScenarioCalls ==
    {[lower |-> 0, upper |-> 500000, dims |-> 10, FFT_units |-> 1000, upsample |-> u] :
        u \in {10, DefaultUpsample}}

\* The waveform of the scenario: a sine sampled every microsecond, here over 4
\* samples at a quarter of the sampling rate, so that bins 1 and 3 (250 kHz)
\* carry it.
ScenarioWave == [n |-> 4, fs |-> 1000000, mag |-> <<0, 1, 0, 1>>]

InitVec ==
    /\ pc = "start"
    /\ \/ wave \in Waves(10) /\ band \in {c \in SmallCalls : c.dims <= c.upsample}
       \/ wave = ScenarioWave /\ band \in ScenarioCalls
    /\ ret = NoResult
    /\ IdleClipped /\ IdleRemove /\ IdleSelect

CallWave2vec ==
    /\ pc = "start"
    /\ ret' = wave2vec(wave, band.lower, band.upper, band.dims,
                       band.FFT_units, band.upsample)
    /\ pc' = "wave2vec"
    /\ UNCHANGED <<sig, clipped, v1, v2, ev, time, res1, res2,
                   signal1, signal2, maxRes, minRes, wave, band>>

SpecVec == InitVec /\ [][CallWave2vec]_vars

\* ------------------------------------------------------------ claims: clipping

\* The number of samples whose rounded absolute value is the rounded maximum.
RoundedPeakCount(s) ==
    LET rounded == [i \in 1..Len(s) |-> Round2(Abs(s[i]))]
    IN  Cardinality({i \in 1..Len(s) : rounded[i] = SeqMax(rounded)})

\* C5: is_clipped returns true exactly when more than one sample, once its
\* absolute value is rounded to 2 decimals, equals the maximum rounded value.
C5_RoundedCount ==
    pc = "is_clipped" => (clipped <=> RoundedPeakCount(sig) > 1)

\* C1: without timestamps remove_clipped completes for every input and returns
\* exactly three sequences.
C1_NoTimeReturnsThree ==
    (pc = "once" /\ time = <<>>) =>
        /\ res1.status = "ok"
        /\ Len(res1.out) = 3

\* The events remove_clipped is to keep: those not clipped on both channels.
Kept == {i \in 1..Len(v1) : ~(is_clipped(v1[i]) /\ is_clipped(v2[i]))}

\* The position in the output of kept event i.
Rank(i) == Cardinality({j \in Kept : j <= i})

\* C2: with timestamps, remove_clipped returns four sequences of equal length
\* holding, in the original order, exactly the entries of the events that are
\* not clipped on both channels.
C2_StableFilter ==
    (pc = "once" /\ time # <<>>) =>
        /\ res1.status = "ok"
        /\ Len(res1.out) = 4
        /\ \A m \in 1..4 : Len(res1.out[m]) = Cardinality(Kept)
        /\ \A i \in Kept :
              /\ res1.out[1][Rank(i)] = v1[i]
              /\ res1.out[2][Rank(i)] = v2[i]
              /\ res1.out[3][Rank(i)] = ev[i]
              /\ res1.out[4][Rank(i)] = time[i]

\* C2 witness: a call with timestamps that dropped the first event (clipped on
\* both channels) and kept the second, which is clipped on one channel only.
C2_Witness ==
    /\ pc = "once" /\ time # <<>>
    /\ Len(v1) = 2
    /\ is_clipped(v1[1]) /\ is_clipped(v2[1])
    /\ is_clipped(v1[2]) /\ ~is_clipped(v2[2])
    /\ res1.out = <<<<v1[2]>>, <<v2[2]>>, <<2>>, <<Stamp(2)>>>>

\* C7: remove_clipped applied to what remove_clipped returned returns the same
\* sequences again.
C7_Idempotent ==
    pc = "twice" => res2 = res1

\* ------------------------------------------------------- claims: max_sig, min_sig

\* The largest absolute sample of s.
PeakMagnitude(s) ==
    CHOOSE p \in {Abs(s[i]) : i \in 1..Len(s)} :
        \A i \in 1..Len(s) : Abs(s[i]) <= p

Channel(c) == IF c = 1 THEN signal1 ELSE signal2

\* What the two selectors have returned so far agrees with the rule of C8.
SelectorsAgree ==
    /\ maxRes # NoResult =>
          /\ maxRes.chan = 1 <=> PeakMagnitude(signal1) > PeakMagnitude(signal2)
          /\ maxRes.chan \in {1, 2}
          /\ maxRes.sig = Channel(maxRes.chan)
    /\ minRes # NoResult =>
          /\ minRes.chan = 2 <=> PeakMagnitude(signal1) > PeakMagnitude(signal2)
          /\ minRes.chan \in {1, 2}
          /\ minRes.sig = Channel(minRes.chan)
    /\ (maxRes # NoResult /\ minRes # NoResult) => maxRes.chan # minRes.chan

BinFreq(b) == IF 2 * b < wave.n THEN <<b * wave.fs, wave.n>>
              ELSE <<(b - wave.n) * wave.fs, wave.n>>

\* The bins fft is to retain.
Retained ==
    {b \in 0..(wave.n - 1) :
        /\ BinFreq(b)[1] >= 0
        /\ band.low_pass # <<>> => BinFreq(b)[1] > band.low_pass[1] * wave.n
        /\ band.high_pass # <<>> => BinFreq(b)[1] < band.high_pass[1] * wave.n}

\* Position k of the output holds bin b: its frequency and its magnitude.
HoldsBin(k, b) ==
    /\ ret.w[k][1] * BinFreq(b)[2] = BinFreq(b)[1] * ret.w[k][2]
    /\ ret.z[k] = <<wave.mag[b + 1], 1>>

\* C9: fft returns frequencies and magnitudes of equal length, position by
\* position of the same bin, the frequencies non-negative and strictly
\* ascending, and the bins are exactly those with frequency >= 0, > low_pass
\* and < high_pass (each bound when given).
C9_OneSidedBand ==
    pc = "fft" =>
        /\ Len(ret.w) = Len(ret.z)
        /\ Len(ret.w) = Cardinality(Retained)
        /\ \A k \in 1..Len(ret.w) : ret.w[k][1] >= 0 /\ ret.w[k][2] > 0
        /\ \A k \in 1..(Len(ret.w) - 1) :
              ret.w[k][1] * ret.w[k + 1][2] < ret.w[k + 1][1] * ret.w[k][2]
        /\ \A k \in 1..Len(ret.w) : \E b \in Retained : HoldsBin(k, b)
        /\ \A b \in Retained : \E k \in 1..Len(ret.w) : HoldsBin(k, b)

\* C9 witness: a 5-sample waveform (bins at 0, 2 and 4 Hz) with both bounds
\* given; bin 0 (at the low bound) and bin 2 (at the high bound) are cut, bin 1
\* alone is returned, and its magnitude differs from that of bin 0.
C9_Witness ==
    /\ pc = "fft"
    /\ wave.n = 5 /\ band.low_pass = <<0>> /\ band.high_pass = <<4>>
    /\ wave.mag[1] # wave.mag[2]
    /\ ret.w = <<<<2, 1>>>>
    /\ ret.z = <<<<wave.mag[2], 1>>>>

\* -------------------------------------------------------- claims: wave2vec

\* Some bin of the waveform has its frequency strictly inside (lower, upper).
InBand ==
    \E b \in 0..(wave.n - 1) :
        /\ 2 * b < wave.n
        /\ band.lower * wave.n < b * wave.fs
        /\ b * wave.fs < band.upper * wave.n

\* 100*dims*floor(upsample/dims) < 99*(upsample-1): the windows leave more
\* than 1% of the grid's upsample-1 steps uncovered.
CoarseByCount ==
    100 * band.dims * (band.upsample \div band.dims) < 99 * (band.upsample - 1)

\* The call returned (feature_vector, band_edges, spacing).
ReturnedTriple ==
    /\ ret.status = "ok"
    /\ Len(ret.feature_vector) = band.dims
    /\ Len(ret.true_bounds) = band.dims
    /\ ret.spacing[2] > 0

\* C3: in the scenario (0..500000 Hz, 10 dimensions, FFT_units 1000) wave2vec
\* raises 'Increase upsampling number' for upsample=10 and returns normally
\* for upsample=10001.
C3_Scenario ==
    (pc = "wave2vec" /\ band \in ScenarioCalls) =>
        /\ band.upsample = 10 => ret.status = ConfigError
        /\ band.upsample = DefaultUpsample => ret.status = "ok"

\* C4 as stated: wave2vec raises 'Increase upsampling number' exactly when
\* 100*dims*floor(upsample/dims) < 99*(upsample-1), and returns the triple in
\* every other case.
C4_OnlyValidation ==
    pc = "wave2vec" =>
        /\ ret.status = ConfigError <=> CoarseByCount
        /\ ~CoarseByCount => ReturnedTriple

\* C4 amended: when some bin of the waveform lies strictly inside the band,
\* wave2vec raises 'Increase upsampling number' exactly when
\* 100*dims*floor(upsample/dims) < 99*(upsample-1) and returns the triple
\* otherwise; when no bin does, the interpolation raises before the check.
C4_CheckWhenInBand ==
    pc = "wave2vec" =>
        IF InBand
        THEN /\ ret.status = ConfigError <=> CoarseByCount
             /\ ~CoarseByCount => ReturnedTriple
        ELSE ret.status = InterpError

\* C4 witness: a call whose band holds a bin, with 3 windows of 1 sample on a
\* grid of 5, which raised 'Increase upsampling number'.
C4_Witness ==
    /\ pc = "wave2vec" /\ InBand
    /\ band.dims = 3 /\ band.upsample = 5
    /\ ret.status = ConfigError

\* C6: whenever wave2vec returns, the feature vector is non-negative and sums
\* to 1.
C6_Normalised ==
    (pc = "wave2vec" /\ ret.status = "ok") =>
        /\ \A j \in 1..band.dims : RLe(<<0, 1>>, ret.feature_vector[j])
        /\ RSum(ret.feature_vector, 1, band.dims) = <<1, 1>>

\* The grid step and the window length C10 names.
GridStep == R(band.upper - band.lower, band.FFT_units * (band.upsample - 1))
WindowLen == band.upsample \div band.dims
BandEdge(j) ==
    RAdd(R(band.lower, band.FFT_units), RMul(R((j - 1) * WindowLen, 1), GridStep))

====
